---- MODULE Spec2Model ----
(***************************************************************************)
(* Model of the schema-migration subsystem of golang-user-api:             *)
(*   pkg/db RunMigrations   (the migration executor and its tracker table) *)
(*   pkg/db InitPostgres    (the shared pool handle)                       *)
(*   cmd/migrate main       (the migration tool: -up, -down, -force, -help)*)
(* Every database statement and every file-system call of a run is one     *)
(* atomic step; two operating-system processes may interleave their steps  *)
(* against the same database, and a process may crash between two steps.   *)
(***************************************************************************)
EXTENDS Integers, Sequences, FiniteSets, TLC

\* ------------------------------------------------------------------ bounds
\* Largest number of .sql files the migrations directory holds.
MaxFiles == 3

\* ------------------------------------------------------------- file names
\* File names are byte strings, written as sequences of character codes.
Name1Sql  == <<49, 46, 115, 113, 108>>        \* "1.sql"
Name10Sql == <<49, 48, 46, 115, 113, 108>>    \* "10.sql"
Name2Sql  == <<50, 46, 115, 113, 108>>        \* "2.sql"
Name3Sql  == <<51, 46, 115, 113, 108>>        \* "3.sql"
Name9Txt  == <<57, 46, 116, 120, 116>>        \* "9.txt"
Name0Sql  == <<48, 46, 115, 113, 108>>        \* "0.sql" (a sub-directory)
SqlSuffix == <<46, 115, 113, 108>>            \* ".sql"

NamePool == <<Name2Sql, Name10Sql, Name1Sql, Name3Sql>>
SqlNames == {NamePool[k] : k \in 1..MaxFiles}
FileEntry(n) == [name |-> n, isDir |-> FALSE]
Decoys == {[name |-> Name9Txt, isDir |-> FALSE], [name |-> Name0Sql, isDir |-> TRUE]}
AllNames == SqlNames \cup {Name9Txt, Name0Sql}

\* The directories a run may meet: one that cannot be listed, an empty one, or
\* some change-set files next to a non-.sql file and a sub-directory.
Dir(readable, entries) == [readable |-> readable, entries |-> entries]
Directories ==
  {Dir(FALSE, {}), Dir(TRUE, {})}
    \cup {Dir(TRUE, {FileEntry(n) : n \in S} \cup Decoys) : S \in SUBSET SqlNames}

Procs == {"p1", "p2"}

\* ------------------------------------------------------------ pure helpers
\* strings.HasSuffix
HasSuffix(s, suffix) ==
  /\ Len(s) >= Len(suffix)
  /\ SubSeq(s, Len(s) - Len(suffix) + 1, Len(s)) = suffix

\* Go's < on strings: byte-wise lexicographic order.
StrLess(a, b) ==
  \E k \in 1..Len(b) :
    /\ \A j \in 1..(k - 1) : j <= Len(a) /\ a[j] = b[j]
    /\ (k > Len(a) \/ a[k] < b[k])

RECURSIVE InsertSorted(_, _)
InsertSorted(s, x) ==
  IF s = <<>> THEN <<x>>
  ELSE IF StrLess(x, Head(s)) THEN <<x>> \o s
  ELSE <<Head(s)>> \o InsertSorted(Tail(s), x)

\* A sort that leaves the listing order as it is.
SortStringsNoop(s) == s

\* sort.Strings
RECURSIVE SortStrings(_)
SortStrings(s) ==
  IF s = <<>> THEN <<>> ELSE InsertSorted(SortStrings(Tail(s)), Head(s))

\* A filter loop that keeps every entry of the listing.
RECURSIVE FilterSqlKeepsAll(_)
FilterSqlKeepsAll(files) ==
  IF files = <<>> THEN <<>>
  ELSE <<Head(files).name>> \o FilterSqlKeepsAll(Tail(files))

\* The filter loop: keep the names of the entries that are not directories and
\* end in ".sql", in listing order.
RECURSIVE FilterSql(_)
FilterSql(files) ==
  IF files = <<>> THEN <<>>
  ELSE LET file == Head(files)
           rest == FilterSql(Tail(files))
       IN IF ~file.isDir /\ HasSuffix(file.name, SqlSuffix)
          THEN <<file.name>> \o rest ELSE rest

\* The listings os.ReadDir may return for a directory: its entries in any order.
RECURSIVE Listings(_)
Listings(dir) ==
  IF dir = {} THEN {<<>>}
  ELSE UNION {{<<e>> \o l : l \in Listings(dir \ {e})} : e \in dir}

Range(s) == {s[k] : k \in 1..Len(s)}
IsStrictlyAscending(s) == \A k \in 1..(Len(s) - 1) : StrLess(s[k], s[k + 1])

\* ------------------------------------------------------------------ state
VARIABLES
  migrationsDir,       \* the migrations directory: can it be listed, its entries
  trackerExists,       \* the migrations table exists
  tracker,             \* rows of the migrations table (filename), in insert order
  schema,              \* change-sets whose statements have taken effect
  pc,                  \* per process: where it is
  flags,               \* per process: the command-line flags
  response,            \* per process: the operator's answer to the force prompt
  DB,                  \* per process: the pool handle is set
  sqlFiles,            \* per run: the sorted change-set names
  executedMigrations,  \* per run: the applied-set snapshot
  rowsErr,             \* per run: the rows iteration ended on an error (rows.Err)
  idx,                 \* per run: position of the loop in sqlFiles
  rmErr,               \* per run: RunMigrations' return value
  runLog,              \* per run: change-sets executed, in order
  recLog,              \* per run: change-sets recorded, in order
  skipLog,             \* per run: change-sets skipped as already executed
  out,                 \* per process: messages printed
  exitCode,            \* per process: exit status
  stmts,               \* per process: statements issued to the database
  after,               \* per process: the processes that had ended when it started
  prog,                \* per process: the main it runs (migrate, app, app0)
  autoMigrate,         \* per process: the value of AUTO_MIGRATE
  seedsDir,            \* the seeds directory: can it be listed, its entries
  users,               \* rows of the users table, in insert order
  seedFiles,           \* per seeding: the sorted seed file names
  seedIdx,             \* per seeding: position of the loop in seedFiles
  seedErr,             \* per seeding: SeedDatabase's return value
  seedLog,             \* per seeding: seed files executed, in order
  dial                 \* per process: the call of InitPostgres (DATABASE_URL, pgxpool.New)

vars == <<migrationsDir, trackerExists, tracker, schema, pc, flags, response, DB,
          sqlFiles, executedMigrations, rowsErr, idx, rmErr, runLog, recLog,
          skipLog, out, exitCode, stmts, after, prog, autoMigrate, seedsDir, users,
          seedFiles, seedIdx, seedErr, seedLog, dial>>

dbVars == <<trackerExists, tracker, schema>>
runVars == <<sqlFiles, executedMigrations, rowsErr, idx, runLog, recLog, skipLog>>
envVars == <<prog, autoMigrate, seedsDir, dial>>
seedVars == <<users, seedFiles, seedIdx, seedErr, seedLog>>

NoName == <<>>
Pending == [kind |-> "pending", name |-> NoName]
Nil == [kind |-> "nil", name |-> NoName]
Error(kind, name) == [kind |-> kind, name |-> name]

NoFlags == [up |-> FALSE, down |-> FALSE, force |-> FALSE, help |-> FALSE]
FlagSets ==
  { NoFlags,
    [NoFlags EXCEPT !.help = TRUE],
    [NoFlags EXCEPT !.up = TRUE],
    [NoFlags EXCEPT !.up = TRUE, !.force = TRUE],
    [NoFlags EXCEPT !.down = TRUE],
    [NoFlags EXCEPT !.down = TRUE, !.force = TRUE],
    [NoFlags EXCEPT !.up = TRUE, !.down = TRUE],
    [NoFlags EXCEPT !.down = TRUE, !.help = TRUE] }
Responses == {"y", "Y", "n", ""}
Dsns == {"", "postgres://db"}

InRun == {"rm_create", "rm_readdir", "rm_query", "rm_loop", "rm_exec", "rm_record"}
InSeed == {"sd_readdir", "sd_loop", "sd_exec", "start"}
Ended == {"exited", "crashed"}
\* A process that runs neither migrations nor seeds any more.
Quiet == Ended \cup {"serving", "returned"}

\* --------------------------------------------------- pkg/db/postgres.go
\* InitPostgres: the error it returns and whether it assigns the pool handle.
\* An InitPostgres that assigns the handle before it tests the error.
InitPostgresAssignsFirst(dsn, poolOk) ==
  IF dsn = "" THEN [err |-> "dsn_not_set", dialled |-> FALSE, pool |-> FALSE]
  ELSE IF ~poolOk THEN [err |-> "connect", dialled |-> TRUE, pool |-> TRUE]
  ELSE [err |-> "nil", dialled |-> TRUE, pool |-> TRUE]

\* dialled: pgxpool.New was called.
InitPostgres(dsn, poolOk) ==
  IF dsn = "" THEN [err |-> "dsn_not_set", dialled |-> FALSE, pool |-> FALSE]
  ELSE IF ~poolOk THEN [err |-> "connect", dialled |-> TRUE, pool |-> FALSE]
  ELSE [err |-> "nil", dialled |-> TRUE, pool |-> TRUE]

\* What a process keeps of its call of InitPostgres: the connection string it
\* read, whether pgxpool.New was called and whether it built a pool.
NotCalled == [called |-> FALSE, dsn |-> "", dialled |-> FALSE, built |-> FALSE]
Called(dsn, poolOk) ==
  [called |-> TRUE, dsn |-> dsn,
   dialled |-> InitPostgres(dsn, poolOk).dialled,
   built |-> InitPostgres(dsn, poolOk).dialled /\ poolOk]

\* A fresh database and no process started.
InitState ==
  /\ trackerExists = FALSE
  /\ tracker = <<>>
  /\ schema = {}
  /\ pc = [p \in Procs |-> "idle"]
  /\ flags = [p \in Procs |-> NoFlags]
  /\ response = [p \in Procs |-> ""]
  /\ DB = [p \in Procs |-> FALSE]
  /\ sqlFiles = [p \in Procs |-> <<>>]
  /\ executedMigrations = [p \in Procs |-> {}]
  /\ rowsErr = [p \in Procs |-> FALSE]
  /\ idx = [p \in Procs |-> 0]
  /\ rmErr = [p \in Procs |-> Pending]
  /\ runLog = [p \in Procs |-> <<>>]
  /\ recLog = [p \in Procs |-> <<>>]
  /\ skipLog = [p \in Procs |-> <<>>]
  /\ out = [p \in Procs |-> {}]
  /\ exitCode = [p \in Procs |-> -1]
  /\ stmts = [p \in Procs |-> 0]
  /\ after = [p \in Procs |-> {}]
  /\ prog = [p \in Procs |-> "none"]
  /\ autoMigrate = [p \in Procs |-> <<>>]
  /\ users = <<>>
  /\ seedFiles = [p \in Procs |-> <<>>]
  /\ seedIdx = [p \in Procs |-> 0]
  /\ seedErr = [p \in Procs |-> Pending]
  /\ seedLog = [p \in Procs |-> <<>>]
  /\ dial = [p \in Procs |-> NotCalled]

Init ==
  /\ InitState
  /\ migrationsDir \in Directories
  /\ seedsDir = Dir(TRUE, {})

\* --------------------------------------------------- cmd/migrate/main.go
\* Each function gives what the process has printed, where it goes next and
\* its exit status (-1 while it is still running).
showHelp == [pc |-> "exited", out |-> {"help"}, exitCode |-> 0]

runMigrationsDownRuns ==
  [pc |-> "rm_create", out |-> {"running"}, exitCode |-> -1]

runMigrationsDown ==
  [pc |-> "exited", out |-> {"rollback_not_implemented"}, exitCode |-> 0]

runMigrationsUpNoPrompt(force, resp) ==
  [pc |-> "rm_create",
   out |-> {"running"} \cup (IF force THEN {"force_warning"} ELSE {}),
   exitCode |-> -1]

\* Up to the call of db.RunMigrations; what follows the call is in Return.
runMigrationsUp(force, resp) ==
  IF force /\ resp # "y" /\ resp # "Y"
  THEN [pc |-> "exited", out |-> {"running", "force_warning", "cancelled"}, exitCode |-> 0]
  ELSE [pc |-> "rm_create",
        out |-> {"running"} \cup (IF force THEN {"force_warning"} ELSE {}),
        exitCode |-> -1]

\* The prompt is read only in force mode, after the pool was set up.
Prompted(fl, dsn, poolOk) ==
  ~fl.help /\ InitPostgres(dsn, poolOk).err = "nil" /\ fl.up /\ fl.force

main(fl, dsn, poolOk, resp) ==
  IF fl.help THEN showHelp
  ELSE IF InitPostgres(dsn, poolOk).err # "nil"
       THEN [pc |-> "exited", out |-> {"fatal_init"}, exitCode |-> 1]
  ELSE IF fl.up THEN runMigrationsUp(fl.force, resp)
  ELSE IF fl.down THEN runMigrationsDown
  ELSE [pc |-> "exited", out |-> {"no_action", "help"}, exitCode |-> 0]

\* One process is started and runs main up to its first database statement.
TMain(p) ==
  /\ pc[p] = "idle"
  /\ \E fl \in FlagSets, dsn \in Dsns, poolOk \in BOOLEAN, resp \in Responses :
       /\ Prompted(fl, dsn, poolOk) \/ resp = ""
       /\ LET r == main(fl, dsn, poolOk, resp) IN
            /\ pc' = [pc EXCEPT ![p] = r.pc]
            /\ out' = [out EXCEPT ![p] = r.out]
            /\ exitCode' = [exitCode EXCEPT ![p] = r.exitCode]
            /\ flags' = [flags EXCEPT ![p] = fl]
            /\ response' = [response EXCEPT ![p] = resp]
            /\ DB' = [DB EXCEPT ![p] = @ \/ (~fl.help /\ InitPostgres(dsn, poolOk).pool)]
            /\ dial' = [dial EXCEPT ![p] = IF fl.help THEN NotCalled ELSE Called(dsn, poolOk)]
  /\ prog' = [prog EXCEPT ![p] = "migrate"]
  /\ after' = [after EXCEPT ![p] = {q \in Procs : pc[q] \in Quiet}]
  /\ UNCHANGED <<migrationsDir, autoMigrate, seedsDir, seedVars, dbVars, runVars, rmErr,
                 stmts>>

\* runMigrationsUp after db.RunMigrations returned e: log.Fatalf on an error,
\* the success message otherwise.
AfterRunTool(e) ==
  IF e # Nil
  THEN [pc |-> "exited", out |-> {"fatal_migrate"}, exitCode |-> 1]
  ELSE [pc |-> "exited", out |-> {"completed"}, exitCode |-> 0]

\* main of the application after db.RunMigrations returned e: log.Fatalf on an
\* error; otherwise it goes on to db.SeedDatabase.
AfterRunApp(e) ==
  IF e # Nil
  THEN [pc |-> "exited", out |-> {"fatal_migrate"}, exitCode |-> 1]
  ELSE [pc |-> "sd_readdir", out |-> {}, exitCode |-> -1]

\* A caller that only takes the value db.RunMigrations or db.SeedDatabase
\* returned.
AfterCall == [pc |-> "returned", out |-> {}, exitCode |-> -1]

\* A caller of db.RunMigrations that logs the error and goes on.
ReturnLogsAndGoesOn(p, e) ==
  LET r == IF prog[p] = "migrate" THEN AfterRunTool(Nil) ELSE AfterRunApp(Nil) IN
  /\ rmErr' = [rmErr EXCEPT ![p] = e]
  /\ pc' = [pc EXCEPT ![p] = r.pc]
  /\ out' = [out EXCEPT ![p] = @ \cup r.out \cup (IF e # Nil THEN {"migrate_error"} ELSE {})]
  /\ exitCode' = [exitCode EXCEPT ![p] = r.exitCode]

\* db.RunMigrations returns e to its caller.
Return(p, e) ==
  LET r == IF prog[p] = "migrate" THEN AfterRunTool(e)
           ELSE IF prog[p] = "call" THEN AfterCall
           ELSE AfterRunApp(e) IN
  /\ rmErr' = [rmErr EXCEPT ![p] = e]
  /\ pc' = [pc EXCEPT ![p] = r.pc]
  /\ out' = [out EXCEPT ![p] = @ \cup r.out]
  /\ exitCode' = [exitCode EXCEPT ![p] = r.exitCode]

Goto(p, label) ==
  /\ pc' = [pc EXCEPT ![p] = label]
  /\ UNCHANGED <<rmErr, out, exitCode>>

Issue(p) == stmts' = [stmts EXCEPT ![p] = @ + 1]

\* ----------------------------------------------------- db.RunMigrations
\* CREATE TABLE IF NOT EXISTS migrations, issued without creating anything.
CreateTableSkipped(exists) == exists

\* CREATE TABLE IF NOT EXISTS migrations.
CreateTable(exists) == TRUE

\* A creation of the tracker table that is not guarded by the nil check.
RMCreateNoNilCheck(p) ==
  /\ pc[p] = "rm_create"
  /\ Issue(p)
  /\ \/ /\ trackerExists' = CreateTable(trackerExists)
        /\ Goto(p, "rm_readdir")
        /\ UNCHANGED <<tracker, schema>>
     \/ /\ Return(p, Error("create", NoName))
        /\ UNCHANGED dbVars
  /\ UNCHANGED <<migrationsDir, envVars, seedVars, flags, response, DB, runVars, after>>

\* The nil check of the pool handle and the creation of the tracker table.
RMCreate(p) ==
  /\ pc[p] = "rm_create"
  /\ IF ~DB[p]
     THEN /\ Return(p, Error("db_nil", NoName))
          /\ UNCHANGED <<dbVars, stmts>>
     ELSE /\ Issue(p)
          /\ \/ /\ trackerExists' = CreateTable(trackerExists)
                /\ Goto(p, "rm_readdir")
                /\ UNCHANGED <<tracker, schema>>
             \/ /\ Return(p, Error("create", NoName))
                /\ UNCHANGED dbVars
  /\ UNCHANGED <<migrationsDir, envVars, seedVars, flags, response, DB, runVars, after>>

\* An os.ReadDir whose error is taken for an empty directory.
RMReadDirIgnoresError(p) ==
  /\ pc[p] = "rm_readdir"
  /\ IF ~migrationsDir.readable
     THEN /\ sqlFiles' = [sqlFiles EXCEPT ![p] = <<>>]
          /\ Goto(p, "rm_query")
     ELSE /\ \E files \in Listings(migrationsDir.entries) :
               sqlFiles' = [sqlFiles EXCEPT ![p] = SortStrings(FilterSql(files))]
          /\ Goto(p, "rm_query")
  /\ UNCHANGED <<migrationsDir, envVars, seedVars, dbVars, flags, response, DB, executedMigrations,
                 rowsErr, idx, runLog, recLog, skipLog, stmts, after>>

\* os.ReadDir of the migrations directory, the filter and the sort.
RMReadDir(p) ==
  /\ pc[p] = "rm_readdir"
  /\ IF ~migrationsDir.readable
     THEN /\ Return(p, Error("readdir", NoName))
          /\ UNCHANGED sqlFiles
     ELSE /\ \E files \in Listings(migrationsDir.entries) :
               sqlFiles' = [sqlFiles EXCEPT ![p] = SortStrings(FilterSql(files))]
          /\ Goto(p, "rm_query")
  /\ UNCHANGED <<migrationsDir, envVars, seedVars, dbVars, flags, response, DB, executedMigrations,
                 rowsErr, idx, runLog, recLog, skipLog, stmts, after>>

\* The rows the loop over rows.Next() has read when it ends: all of them, or,
\* when the connection fails while iterating, a prefix (rows.Err is not read).
RowsRead(rows) == {SubSeq(rows, 1, n) : n \in 0..Len(rows)}

\* A scan loop that forgets the rows it read.
ScanRowsForgets(read) == {}

\* The scan loop: executedMigrations[filename] = true for every row read.
ScanRows(read) == Range(read)

\* SELECT filename FROM migrations and the loop that builds the snapshot. The
\* query fails when the table is missing or the connection is lost.
RMQuery(p) ==
  /\ pc[p] = "rm_query"
  /\ Issue(p)
  /\ \/ /\ trackerExists
        /\ \E read \in RowsRead(tracker) :
             /\ executedMigrations' = [executedMigrations EXCEPT ![p] = ScanRows(read)]
             /\ rowsErr' = [rowsErr EXCEPT ![p] = Len(read) < Len(tracker)]
        /\ idx' = [idx EXCEPT ![p] = 1]
        /\ Goto(p, "rm_loop")
     \/ /\ Return(p, Error("query", NoName))
        /\ UNCHANGED <<executedMigrations, rowsErr, idx>>
     \/ /\ trackerExists /\ tracker # <<>>
        /\ Return(p, Error("scan", NoName))
        /\ UNCHANGED <<executedMigrations, rowsErr, idx>>
  /\ UNCHANGED <<migrationsDir, envVars, seedVars, dbVars, flags, response, DB, sqlFiles,
                 runLog, recLog, skipLog, after>>

Current(p) == sqlFiles[p][idx[p]]

\* A loop that skips a change-set whether or not the snapshot holds it.
RMSkipAny(p) ==
  /\ pc[p] = "rm_loop"
  /\ idx[p] <= Len(sqlFiles[p])
  /\ skipLog' = [skipLog EXCEPT ![p] = Append(@, Current(p))]
  /\ idx' = [idx EXCEPT ![p] = @ + 1]
  /\ UNCHANGED <<migrationsDir, envVars, seedVars, dbVars, pc, flags, response, DB, sqlFiles,
                 executedMigrations, rowsErr, rmErr, runLog, recLog, out, exitCode,
                 stmts, after>>

\* A skip that does not move the loop on.
RMSkipStays(p) ==
  /\ pc[p] = "rm_loop"
  /\ idx[p] <= Len(sqlFiles[p])
  /\ Current(p) \in executedMigrations[p]
  /\ UNCHANGED vars

\* The loop meets a change-set of the snapshot: it is skipped.
RMSkip(p) ==
  /\ pc[p] = "rm_loop"
  /\ idx[p] <= Len(sqlFiles[p])
  /\ Current(p) \in executedMigrations[p]
  /\ skipLog' = [skipLog EXCEPT ![p] = Append(@, Current(p))]
  /\ idx' = [idx EXCEPT ![p] = @ + 1]
  /\ UNCHANGED <<migrationsDir, envVars, seedVars, dbVars, pc, flags, response, DB, sqlFiles,
                 executedMigrations, rowsErr, rmErr, runLog, recLog, out, exitCode,
                 stmts, after>>

\* A read after which the change-set is recorded without being executed.
RMReadThenRecord(p) ==
  /\ pc[p] = "rm_loop"
  /\ idx[p] <= Len(sqlFiles[p])
  /\ Current(p) \notin executedMigrations[p]
  /\ \/ Goto(p, "rm_record")
     \/ Return(p, Error("read", Current(p)))
  /\ UNCHANGED <<migrationsDir, envVars, seedVars, dbVars, flags, response, DB, runVars, stmts, after>>

\* os.ReadFile of a change-set that is not in the snapshot.
RMRead(p) ==
  /\ pc[p] = "rm_loop"
  /\ idx[p] <= Len(sqlFiles[p])
  /\ Current(p) \notin executedMigrations[p]
  /\ \/ Goto(p, "rm_exec")
     \/ Return(p, Error("read", Current(p)))
  /\ UNCHANGED <<migrationsDir, envVars, seedVars, dbVars, flags, response, DB, runVars, stmts, after>>

\* An Exec that writes the applied-record in the same unit as the statements.
RMExecAndRecord(p) ==
  /\ pc[p] = "rm_exec"
  /\ Issue(p)
  /\ \/ /\ schema' = schema \cup {Current(p)}
        /\ tracker' = IF Current(p) \in Range(tracker) THEN tracker
                       ELSE Append(tracker, Current(p))
        /\ runLog' = [runLog EXCEPT ![p] = Append(@, Current(p))]
        /\ Goto(p, "rm_record")
     \/ /\ Return(p, Error("execute", Current(p)))
        /\ UNCHANGED <<schema, tracker, runLog>>
  /\ UNCHANGED <<migrationsDir, envVars, seedVars, trackerExists, flags, response, DB, sqlFiles,
                 executedMigrations, rowsErr, idx, recLog, skipLog, after>>

\* An Exec whose failure is returned without the change-set's name.
RMExecUnnamedError(p) ==
  /\ pc[p] = "rm_exec"
  /\ Issue(p)
  /\ \/ /\ schema' = schema \cup {Current(p)}
        /\ runLog' = [runLog EXCEPT ![p] = Append(@, Current(p))]
        /\ Goto(p, "rm_record")
     \/ /\ Return(p, Error("execute", NoName))
        /\ UNCHANGED <<schema, runLog>>
  /\ UNCHANGED <<migrationsDir, envVars, seedVars, trackerExists, tracker, flags, response, DB, sqlFiles,
                 executedMigrations, rowsErr, idx, recLog, skipLog, after>>

\* DB.Exec of the change-set's text: it takes effect, or it fails and nothing
\* of it does (the statements of one Exec are one implicit transaction).
RMExec(p) ==
  /\ pc[p] = "rm_exec"
  /\ Issue(p)
  /\ \/ /\ schema' = schema \cup {Current(p)}
        /\ runLog' = [runLog EXCEPT ![p] = Append(@, Current(p))]
        /\ Goto(p, "rm_record")
     \/ /\ Return(p, Error("execute", Current(p)))
        /\ UNCHANGED <<schema, runLog>>
  /\ UNCHANGED <<migrationsDir, envVars, seedVars, trackerExists, tracker, flags, response, DB, sqlFiles,
                 executedMigrations, rowsErr, idx, recLog, skipLog, after>>

\* An INSERT that ignores the UNIQUE constraint on filename.
InsertMigrationNoUnique(rows, filename) ==
  [ok |-> TRUE, rows |-> Append(rows, filename)]

\* An INSERT that replaces the row of a name that is present.
InsertMigrationReplaces(rows, filename) ==
  [ok |-> TRUE, rows |-> Append(SelectSeq(rows, LAMBDA r : r # filename), filename)]

\* INSERT INTO migrations (filename): refused when the name is present
\* (filename is UNIQUE).
InsertMigration(rows, filename) ==
  IF filename \in Range(rows)
  THEN [ok |-> FALSE, rows |-> rows]
  ELSE [ok |-> TRUE, rows |-> Append(rows, filename)]

\* The INSERT that records the change-set; the loop moves on when it succeeds.
RMRecord(p) ==
  /\ pc[p] = "rm_record"
  /\ Issue(p)
  /\ \/ /\ trackerExists
        /\ InsertMigration(tracker, Current(p)).ok
        /\ tracker' = InsertMigration(tracker, Current(p)).rows
        /\ recLog' = [recLog EXCEPT ![p] = Append(@, Current(p))]
        /\ idx' = [idx EXCEPT ![p] = @ + 1]
        /\ Goto(p, "rm_loop")
     \/ /\ Return(p, Error("record", Current(p)))
        /\ UNCHANGED <<tracker, recLog, idx>>
  /\ UNCHANGED <<migrationsDir, envVars, seedVars, trackerExists, schema, flags, response, DB, sqlFiles,
                 executedMigrations, rowsErr, runLog, skipLog, after>>

\* The loop is over: RunMigrations returns nil.
RMDone(p) ==
  /\ pc[p] = "rm_loop"
  /\ idx[p] > Len(sqlFiles[p])
  /\ Return(p, Nil)
  /\ UNCHANGED <<migrationsDir, envVars, seedVars, dbVars, flags, response, DB, runVars, stmts, after>>

\* The process dies (or loses its connection for good) between two steps.
Crash(p) ==
  /\ pc[p] \in InRun \cup InSeed
  /\ pc' = [pc EXCEPT ![p] = "crashed"]
  /\ UNCHANGED <<migrationsDir, envVars, seedVars, dbVars, flags, response, DB, runVars, rmErr, out,
                 exitCode, stmts, after>>

\* ------------------------------------------------------- cmd/main.go
\* Values of AUTO_MIGRATE, as byte strings; the empty one is the unset variable.
StrTrue  == <<116, 114, 117, 101>>        \* "true"
StrTRUE  == <<84, 82, 85, 69>>            \* "TRUE"
StrOne   == <<49>>                        \* "1"
StrYes   == <<121, 101, 115>>             \* "yes"
StrYesC  == <<89, 101, 115>>              \* "Yes"
StrFalse == <<102, 97, 108, 115, 101>>    \* "false"
StrOn    == <<111, 110>>                  \* "on"
AutoMigrateValues == {<<>>, StrTrue, StrTRUE, StrOne, StrYes, StrYesC, StrFalse, StrOn}

\* strings.ToLower on ASCII
ToLower(str) ==
  [k \in 1..Len(str) |-> IF str[k] >= 65 /\ str[k] <= 90 THEN str[k] + 32 ELSE str[k]]

\* A test of AUTO_MIGRATE that compares the value as it is.
AutoMigrateEnabledExact(value) ==
  value = StrTrue \/ value = StrOne \/ value = StrYes

\* autoMigrate == "true" || autoMigrate == "1" || autoMigrate == "yes", on the
\* lower-cased value.
AutoMigrateEnabled(value) ==
  LET lower == ToLower(value) IN
    lower = StrTrue \/ lower = StrOne \/ lower = StrYes

\* main of the application, up to its first database statement: the current
\* one (cmd/main.go) runs the migrations when AUTO_MIGRATE enables them, the
\* earlier one ("app0") always.
appMain(pr, dsn, poolOk, value) ==
  IF InitPostgres(dsn, poolOk).err # "nil"
  THEN [pc |-> "exited", out |-> {"fatal_init"}, exitCode |-> 1]
  ELSE IF pr = "app0"
       THEN [pc |-> "rm_create", out |-> {}, exitCode |-> -1]
  ELSE IF AutoMigrateEnabled(value)
       THEN [pc |-> "rm_create", out |-> {"auto_migrate_enabled"}, exitCode |-> -1]
  ELSE [pc |-> "sd_readdir", out |-> {"auto_migrate_disabled"}, exitCode |-> -1]

\* One application process is started and runs main up to its first database
\* statement.
AMain(p) ==
  /\ pc[p] = "idle"
  /\ \E pr \in {"app", "app0"}, dsn \in Dsns, poolOk \in BOOLEAN,
        value \in AutoMigrateValues :
       /\ pr = "app" \/ value = <<>>
       /\ LET r == appMain(pr, dsn, poolOk, value) IN
            /\ pc' = [pc EXCEPT ![p] = r.pc]
            /\ out' = [out EXCEPT ![p] = r.out]
            /\ exitCode' = [exitCode EXCEPT ![p] = r.exitCode]
            /\ prog' = [prog EXCEPT ![p] = pr]
            /\ autoMigrate' = [autoMigrate EXCEPT ![p] = value]
            /\ DB' = [DB EXCEPT ![p] = @ \/ InitPostgres(dsn, poolOk).pool]
            /\ dial' = [dial EXCEPT ![p] = Called(dsn, poolOk)]
  /\ after' = [after EXCEPT ![p] = {q \in Procs : pc[q] \in Quiet}]
  /\ UNCHANGED <<migrationsDir, seedsDir, seedVars, dbVars, runVars, rmErr, stmts,
                 flags, response>>

\* ------------------------------------------------------- db.SeedDatabase
UsersSql  == <<117, 115, 101, 114, 115, 46, 115, 113, 108>>       \* "users.sql"
AdminsSql == <<97, 100, 109, 105, 110, 115, 46, 115, 113, 108>>   \* "admins.sql"

\* The rows a seed file inserts: users.sql as in the repository (its first
\* rows), and a second seed file with one row of its own.
Row(id, username, email) == [id |-> id, username |-> username, email |-> email]
SeedRows(filename) ==
  IF filename = UsersSql
  THEN << Row("550e8400-0000", "john_doe", "john@example.com"),
          Row("550e8400-0001", "jane_smith", "jane@example.com") >>
  ELSE << Row("550e8400-0009", "admin", "admin@example.com") >>

SeedDirectories ==
  { Dir(FALSE, {}), Dir(TRUE, {}), Dir(TRUE, {FileEntry(UsersSql)}),
    Dir(TRUE, {FileEntry(UsersSql), FileEntry(AdminsSql)} \cup Decoys) }

\* The users table is created by the first migration
\* (001_create_users_table.sql, here "1.sql").
UsersTableExists == Name1Sql \in schema

\* An INSERT into a table without a constraint: every row is added.
RECURSIVE InsertUnconstrained(_, _)
InsertUnconstrained(table, rows) ==
  IF rows = <<>> THEN [ok |-> TRUE, rows |-> table]
  ELSE InsertUnconstrained(Append(table, Head(rows)), Tail(rows))

\* INSERT INTO users ... ON CONFLICT (email) DO NOTHING: a row whose email is
\* in the table is left out; a row that breaks another constraint (id is the
\* primary key, username is UNIQUE) fails the statement.
RECURSIVE InsertOnConflictEmail(_, _)
InsertOnConflictEmail(table, rows) ==
  IF rows = <<>> THEN [ok |-> TRUE, rows |-> table]
  ELSE LET row == Head(rows) IN
       IF \E k \in 1..Len(table) : table[k].email = row.email
       THEN InsertOnConflictEmail(table, Tail(rows))
       ELSE IF \E k \in 1..Len(table) :
                 table[k].id = row.id \/ table[k].username = row.username
       THEN [ok |-> FALSE, rows |-> table]
       ELSE InsertOnConflictEmail(Append(table, row), Tail(rows))

\* db.SeedDatabase returns e to main, which logs a warning on an error and
\* goes on to build the repository, the handler and the server.
SeedReturn(p, e) ==
  /\ seedErr' = [seedErr EXCEPT ![p] = e]
  /\ pc' = [pc EXCEPT ![p] = IF prog[p] = "call" THEN AfterCall.pc ELSE "start"]
  /\ out' = [out EXCEPT ![p] = @ \cup (IF e = Nil \/ prog[p] = "call" THEN {}
                                         ELSE {"seed_warning"})]
  /\ UNCHANGED exitCode

SeedGoto(p, label) ==
  /\ pc' = [pc EXCEPT ![p] = label]
  /\ UNCHANGED <<seedErr, out, exitCode>>

CurrentSeed(p) == seedFiles[p][seedIdx[p]]

\* The nil check of the pool handle, os.ReadDir of the seeds directory, the
\* filter and the sort.
SDReadDir(p) ==
  /\ pc[p] = "sd_readdir"
  /\ IF ~DB[p]
     THEN /\ SeedReturn(p, Error("db_nil", NoName))
          /\ UNCHANGED <<seedFiles, seedIdx>>
     ELSE IF ~seedsDir.readable
     THEN /\ SeedReturn(p, Error("seed_readdir", NoName))
          /\ UNCHANGED <<seedFiles, seedIdx>>
     ELSE /\ \E files \in Listings(seedsDir.entries) :
               seedFiles' = [seedFiles EXCEPT ![p] = SortStrings(FilterSql(files))]
          /\ seedIdx' = [seedIdx EXCEPT ![p] = 1]
          /\ SeedGoto(p, "sd_loop")
  /\ UNCHANGED <<migrationsDir, envVars, dbVars, runVars, rmErr, flags, response, DB,
                 stmts, after, users, seedLog>>

\* A seed loop that passes over a file whose rows are all in the table.
SDReadSkipsSeeded(p) ==
  /\ pc[p] = "sd_loop"
  /\ seedIdx[p] <= Len(seedFiles[p])
  /\ IF \A k \in 1..Len(SeedRows(CurrentSeed(p))) : SeedRows(CurrentSeed(p))[k] \in Range(users)
     THEN /\ seedIdx' = [seedIdx EXCEPT ![p] = @ + 1]
          /\ UNCHANGED <<pc, seedErr, out, exitCode>>
     ELSE /\ \/ SeedGoto(p, "sd_exec")
             \/ SeedReturn(p, Error("seed_read", CurrentSeed(p)))
          /\ UNCHANGED seedIdx
  /\ UNCHANGED <<migrationsDir, envVars, dbVars, runVars, rmErr, flags, response, DB,
                 stmts, after, users, seedFiles, seedLog>>

\* os.ReadFile of the seed file the loop is at.
SDRead(p) ==
  /\ pc[p] = "sd_loop"
  /\ seedIdx[p] <= Len(seedFiles[p])
  /\ \/ SeedGoto(p, "sd_exec")
     \/ SeedReturn(p, Error("seed_read", CurrentSeed(p)))
  /\ UNCHANGED <<migrationsDir, envVars, dbVars, runVars, rmErr, flags, response, DB,
                 stmts, after, users, seedFiles, seedIdx, seedLog>>

\* An Exec of a seed file whose failure is logged and passed over.
SDExecGoesOn(p) ==
  /\ pc[p] = "sd_exec"
  /\ Issue(p)
  /\ \/ /\ UsersTableExists
        /\ InsertOnConflictEmail(users, SeedRows(CurrentSeed(p))).ok
        /\ users' = InsertOnConflictEmail(users, SeedRows(CurrentSeed(p))).rows
        /\ seedLog' = [seedLog EXCEPT ![p] = Append(@, CurrentSeed(p))]
        /\ seedIdx' = [seedIdx EXCEPT ![p] = @ + 1]
        /\ SeedGoto(p, "sd_loop")
     \/ /\ seedIdx' = [seedIdx EXCEPT ![p] = @ + 1]
        /\ seedErr' = [seedErr EXCEPT ![p] = Error("seed_execute", CurrentSeed(p))]
        /\ pc' = [pc EXCEPT ![p] = "sd_loop"]
        /\ UNCHANGED <<users, seedLog, out, exitCode>>
  /\ UNCHANGED <<migrationsDir, envVars, dbVars, runVars, rmErr, flags, response, DB,
                 after, seedFiles>>

\* DB.Exec of the seed file's text: its rows are inserted, or it fails (the
\* users table is missing, a constraint other than the one on email is broken,
\* the text is invalid, the connection is lost) and nothing of it takes effect.
SDExec(p) ==
  /\ pc[p] = "sd_exec"
  /\ Issue(p)
  /\ \/ /\ UsersTableExists
        /\ InsertOnConflictEmail(users, SeedRows(CurrentSeed(p))).ok
        /\ users' = InsertOnConflictEmail(users, SeedRows(CurrentSeed(p))).rows
        /\ seedLog' = [seedLog EXCEPT ![p] = Append(@, CurrentSeed(p))]
        /\ seedIdx' = [seedIdx EXCEPT ![p] = @ + 1]
        /\ SeedGoto(p, "sd_loop")
     \/ /\ SeedReturn(p, Error("seed_execute", CurrentSeed(p)))
        /\ UNCHANGED <<users, seedLog, seedIdx>>
  /\ UNCHANGED <<migrationsDir, envVars, dbVars, runVars, rmErr, flags, response, DB,
                 after, seedFiles>>

\* The loop is over: SeedDatabase returns nil.
SDDone(p) ==
  /\ pc[p] = "sd_loop"
  /\ seedIdx[p] > Len(seedFiles[p])
  /\ SeedReturn(p, Nil)
  /\ UNCHANGED <<migrationsDir, envVars, dbVars, runVars, rmErr, flags, response, DB,
                 stmts, after, users, seedFiles, seedIdx, seedLog>>

\* The repository, the handler and the routes are set up and e.Start is
\* called: the server serves, or e.Start returns an error and log.Fatal ends
\* the process.
AStart(p) ==
  /\ pc[p] = "start"
  /\ \/ /\ pc' = [pc EXCEPT ![p] = "serving"]
        /\ out' = [out EXCEPT ![p] = @ \cup {"server_started"}]
        /\ UNCHANGED exitCode
     \/ /\ pc' = [pc EXCEPT ![p] = "exited"]
        /\ out' = [out EXCEPT ![p] = @ \cup {"fatal_server"}]
        /\ exitCode' = [exitCode EXCEPT ![p] = 1]
  /\ UNCHANGED <<migrationsDir, envVars, seedVars, dbVars, runVars, rmErr, flags,
                 response, DB, stmts, after>>

Next ==
  \E p \in Procs :
    \/ TMain(p)
    \/ RMCreate(p)
    \/ RMReadDir(p)
    \/ RMQuery(p)
    \/ RMSkip(p)
    \/ RMRead(p)
    \/ RMExec(p)
    \/ RMRecord(p)
    \/ RMDone(p)
    \/ Crash(p)

Spec == Init /\ [][Next]_vars

\* ------------------------------------------------- runs that keep going
\* One step of the run of p. RunMigrations is straight-line code on one
\* goroutine and each of its calls returns, so a run that has a step to take
\* takes it unless the process dies.
RunStep(p) ==
  \/ RMCreate(p)
  \/ RMReadDir(p)
  \/ RMQuery(p)
  \/ RMSkip(p)
  \/ RMRead(p)
  \/ RMExec(p)
  \/ RMRecord(p)
  \/ RMDone(p)

InitFair ==
  /\ InitState
  /\ migrationsDir \in {Dir(FALSE, {}),
                        Dir(TRUE, Decoys),
                        Dir(TRUE, {FileEntry(Name1Sql)}),
                        Dir(TRUE, {FileEntry(Name2Sql), FileEntry(Name10Sql)})}
  /\ seedsDir = Dir(TRUE, {})

FairSpec == InitFair /\ [][Next]_vars /\ \A p \in Procs : WF_vars(RunStep(p))

\* --------------------------------------------- processes run in succession
\* The application and the migration tool, started one at a time: the second
\* process starts when the first has ended or is serving.
AppDirectories ==
  { Dir(FALSE, {}),
    Dir(TRUE, {FileEntry(Name1Sql)} \cup Decoys),
    Dir(TRUE, {FileEntry(Name2Sql), FileEntry(Name1Sql)} \cup Decoys),
    Dir(TRUE, {FileEntry(Name2Sql), FileEntry(Name10Sql)} \cup Decoys) }

InitApp ==
  /\ InitState
  /\ migrationsDir \in AppDirectories
  /\ seedsDir \in SeedDirectories

InTurn(p) == p = "p1" \/ pc["p1"] \in Quiet

NextApp ==
  \E p \in Procs :
    \/ InTurn(p) /\ AMain(p)
    \/ InTurn(p) /\ TMain(p)
    \/ InTurn(p) /\ RMCreate(p)
    \/ InTurn(p) /\ RMReadDir(p)
    \/ InTurn(p) /\ RMQuery(p)
    \/ InTurn(p) /\ RMSkip(p)
    \/ InTurn(p) /\ RMRead(p)
    \/ InTurn(p) /\ RMExec(p)
    \/ InTurn(p) /\ RMRecord(p)
    \/ InTurn(p) /\ RMDone(p)
    \/ InTurn(p) /\ SDReadDir(p)
    \/ InTurn(p) /\ SDRead(p)
    \/ InTurn(p) /\ SDExec(p)
    \/ InTurn(p) /\ SDDone(p)
    \/ InTurn(p) /\ AStart(p)
    \/ InTurn(p) /\ Crash(p)

AppSpec == InitApp /\ [][NextApp]_vars

\* ------------------------------------------------ the functions called
\* A caller other than the two mains: it calls InitPostgres or not, does
\* not act on its error, and calls db.RunMigrations or db.SeedDatabase.
Call(p) ==
  /\ pc[p] = "idle"
  /\ \E init \in BOOLEAN, dsn \in Dsns, poolOk \in BOOLEAN :
       /\ init \/ (dsn = "" /\ ~poolOk)
       /\ DB' = [DB EXCEPT ![p] = @ \/ (init /\ InitPostgres(dsn, poolOk).pool)]
       /\ dial' = [dial EXCEPT ![p] = IF init THEN Called(dsn, poolOk) ELSE NotCalled]
  /\ \E entry \in {"rm_create", "sd_readdir"} : pc' = [pc EXCEPT ![p] = entry]
  /\ prog' = [prog EXCEPT ![p] = "call"]
  /\ after' = [after EXCEPT ![p] = {q \in Procs : pc[q] \in Quiet}]
  /\ UNCHANGED <<migrationsDir, autoMigrate, seedsDir, seedVars, dbVars, runVars, rmErr,
                 stmts, flags, response, out, exitCode>>

InitCall ==
  /\ InitState
  /\ migrationsDir \in {Dir(FALSE, {}), Dir(TRUE, {FileEntry(Name1Sql)} \cup Decoys)}
  /\ seedsDir \in SeedDirectories

NextCall ==
  \E p \in Procs :
    \/ InTurn(p) /\ Call(p)
    \/ InTurn(p) /\ RMCreate(p)
    \/ InTurn(p) /\ RMReadDir(p)
    \/ InTurn(p) /\ RMQuery(p)
    \/ InTurn(p) /\ RMSkip(p)
    \/ InTurn(p) /\ RMRead(p)
    \/ InTurn(p) /\ RMExec(p)
    \/ InTurn(p) /\ RMRecord(p)
    \/ InTurn(p) /\ RMDone(p)
    \/ InTurn(p) /\ SDReadDir(p)
    \/ InTurn(p) /\ SDRead(p)
    \/ InTurn(p) /\ SDExec(p)
    \/ InTurn(p) /\ SDDone(p)

CallSpec == InitCall /\ [][NextCall]_vars

\* ------------------------------------------------------------- properties
Last(s) == s[Len(s)]
Others(p) == Procs \ {p}
\* p and q ran at the same time: neither had ended when the other started.
Concurrent(p, q) ==
  /\ p # q /\ pc[p] # "idle" /\ pc[q] # "idle"
  /\ q \notin after[p] /\ p \notin after[q]
\* p is alone: no other process has been started.
Alone(p) == \A q \in Others(p) : pc[q] = "idle"
\* The run of p has taken its snapshot and is in (or past) the loop.
InLoop(p) == idx[p] >= 1
Granted(p) == response[p] = "y" \/ response[p] = "Y"
ForceAsked(p) == flags[p].up /\ flags[p].force /\ DB[p]

\* C1: within one run the change-sets executed, and the change-sets recorded,
\* are in strictly ascending filename order whatever the order of the directory
\* listing; a change-set whose read or execution fails sorts after every one
\* executed before it.
C1_AscendingOrder ==
  \A p \in Procs :
    /\ IsStrictlyAscending(sqlFiles[p])
    /\ IsStrictlyAscending(runLog[p])
    /\ IsStrictlyAscending(recLog[p])
    /\ (rmErr[p].kind \in {"read", "execute"} /\ recLog[p] # <<>>)
         => StrLess(Last(recLog[p]), rmErr[p].name)

C1_Witness ==
  \E p \in Procs :
    /\ runLog[p] = <<Name1Sql, Name10Sql, Name2Sql>>
    /\ recLog[p] = runLog[p]

\* C2: a run that starts after another run returned nil, and that reads the
\* whole tracker, executes and records nothing, never fails in the loop, skips
\* every discovered change-set and leaves the tracker as it found it.
C2_SecondRunIsNoOp ==
  \A p \in Procs : \A q \in Others(p) :
    (q \in after[p] /\ rmErr[q] = Nil /\ InLoop(p) /\ ~rowsErr[p]) =>
      /\ sqlFiles[p] = sqlFiles[q]
      /\ runLog[p] = <<>> /\ recLog[p] = <<>>
      /\ pc[p] \notin {"rm_exec", "rm_record"}
      /\ rmErr[p] \in {Pending, Nil}
      /\ rmErr[p] = Nil => (skipLog[p] = sqlFiles[p] /\ exitCode[p] = 0)
      /\ Range(tracker) = executedMigrations[p]
      /\ Range(tracker) = executedMigrations[q] \cup Range(recLog[q])

C2_Witness ==
  \E p \in Procs : \E q \in Others(p) :
    /\ q \in after[p] /\ rmErr[q] = Nil /\ Len(recLog[q]) = 3
    /\ rmErr[p] = Nil /\ ~rowsErr[p] /\ Len(skipLog[p]) = 3

\* C3 as stated: of two runs that are live at the same time, at most one
\* executes the statements of a given change-set.
C3_NoDoubleApply ==
  \A p \in Procs : \A q \in Others(p) :
    (Concurrent(p, q) /\ pc[p] # "crashed" /\ pc[q] # "crashed"
       /\ ~rowsErr[p] /\ ~rowsErr[q])
      => Range(runLog[p]) \cap Range(runLog[q]) = {}

\* C3 amended: each change-set is recorded by at most one run; of two runs that
\* both executed it, the one that did not record it has not recorded anything
\* after it, and if it has returned, it returned the record error naming it.
C3_NoDoubleRecord ==
  \A p \in Procs : \A q \in Others(p) :
    /\ Range(recLog[p]) \cap Range(recLog[q]) = {}
    /\ \A f \in Range(runLog[p]) \cap Range(recLog[q]) :
         /\ Last(runLog[p]) = f
         /\ pc[p] = "exited" => rmErr[p] = Error("record", f)

C3_Witness ==
  \E p \in Procs : \E q \in Others(p) :
    /\ Concurrent(p, q)
    /\ runLog[p] = <<Name1Sql>> /\ rmErr[p] = Error("record", Name1Sql)
    /\ Name1Sql \in Range(recLog[q])
    /\ pc[q] # "crashed" /\ ~rowsErr[p] /\ ~rowsErr[q]

\* C4 as stated: whenever no run is between the execution of a change-set and
\* its recording, a change-set has taken effect exactly if it is in the tracker.
C4_ExecuteAndRecordAtomic ==
  (\A p \in Procs : pc[p] # "rm_record")
    => \A f \in AllNames : f \in schema <=> f \in Range(tracker)

\* C4 amended: a change-set in the tracker has taken effect; one that has taken
\* effect and is not in the tracker is the last one executed by a run that is
\* about to record it, crashed before recording it, or failed to record it.
C4_RecordedImpliesExecuted ==
  /\ Range(tracker) \subseteq schema
  /\ \A f \in schema \ Range(tracker) :
       \E p \in Procs :
         /\ runLog[p] # <<>> /\ Last(runLog[p]) = f /\ f \notin Range(recLog[p])
         /\ \/ pc[p] \in {"rm_record", "crashed"}
            \/ rmErr[p] = Error("record", f)

C4_Witness ==
  \E p \in Procs :
    /\ Alone(p) /\ pc[p] = "crashed"
    /\ runLog[p] = <<Name1Sql, Name10Sql>> /\ tracker = <<Name1Sql>>
    /\ schema = {Name1Sql, Name10Sql}

\* C5: no name occurs in two rows of the tracker table.
C5_TrackerNamesUnique ==
  \A i, j \in 1..Len(tracker) : i # j => tracker[i] # tracker[j]

C5_Witness ==
  \E p \in Procs : \E q \in Others(p) :
    /\ Concurrent(p, q) /\ Len(tracker) = 3
    /\ rmErr[p].kind = "record" /\ rmErr[p].name \in Range(tracker)
    /\ recLog[q] # <<>>

\* C6: a run alone on a fresh database over three change-sets [A, B, C] whose
\* Exec of B fails has executed and recorded exactly A, has left B and C without
\* effect and unrecorded, and has returned the execute error naming B, which
\* ends the process with status 1.
C6_PartialFailure ==
  \A p \in Procs :
    (Alone(p) /\ Len(sqlFiles[p]) = 3 /\ rmErr[p].kind = "execute" /\ idx[p] = 2) =>
      /\ rmErr[p].name = sqlFiles[p][2]
      /\ tracker = <<sqlFiles[p][1]>>
      /\ runLog[p] = <<sqlFiles[p][1]>> /\ recLog[p] = runLog[p]
      /\ schema = {sqlFiles[p][1]}
      /\ pc[p] = "exited" /\ exitCode[p] = 1 /\ "completed" \notin out[p]

C6_Witness ==
  \E p \in Procs :
    /\ Alone(p) /\ sqlFiles[p] = <<Name1Sql, Name10Sql, Name2Sql>>
    /\ rmErr[p] = Error("execute", Name10Sql)
    /\ tracker = <<Name1Sql>>

\* C7 as stated: a run started with -up -force and confirmed with y or Y, over
\* two change-sets [A, B] that are both in the tracker when it takes its
\* snapshot, has executed both A and B when it returns nil.
C7_ForceReexecutesAll ==
  \A p \in Procs :
    (ForceAsked(p) /\ Granted(p) /\ rmErr[p] = Nil
       /\ Len(sqlFiles[p]) = 2 /\ Range(sqlFiles[p]) \subseteq executedMigrations[p])
      => runLog[p] = sqlFiles[p]

\* C8: a process started with -up -force whose answer to the prompt is neither
\* y nor Y ends at once: it prints the cancellation, issues no statement,
\* executes and records nothing, never enters RunMigrations, and the step that
\* runs it leaves the schema and the tracker table as they were.
C8_ForceDenied ==
  [][\A p \in Procs :
       (ForceAsked(p)' /\ ~Granted(p)') =>
         /\ pc'[p] = "exited" /\ exitCode'[p] = 0
         /\ "cancelled" \in out'[p] /\ "completed" \notin out'[p]
         /\ stmts'[p] = 0 /\ rmErr'[p] = Pending
         /\ runLog'[p] = <<>> /\ recLog'[p] = <<>> /\ sqlFiles'[p] = <<>>
         /\ pc[p] = "idle" => UNCHANGED dbVars]_vars

C8_Witness ==
  \E p \in Procs : \E q \in Others(p) :
    /\ ForceAsked(p) /\ response[p] = "" /\ pc[p] = "exited"
    /\ q \in after[p] /\ Len(tracker) = 2

\* C9: a process started with -down and without -up issues no statement,
\* executes and records nothing and never enters RunMigrations; the step that
\* runs it leaves the schema and the tracker table as they were; and whenever
\* it gets to runMigrationsDown it prints only the not-implemented notice.
C9_DownIsStub ==
  [][\A p \in Procs :
       (flags[p].down /\ ~flags[p].up)' =>
         /\ pc'[p] = "exited"
         /\ stmts'[p] = 0 /\ rmErr'[p] = Pending
         /\ runLog'[p] = <<>> /\ recLog'[p] = <<>> /\ sqlFiles'[p] = <<>>
         /\ pc[p] = "idle" => UNCHANGED dbVars
         /\ DB'[p] => (out'[p] = {"rollback_not_implemented"} /\ exitCode'[p] = 0)]_vars

C9_Witness ==
  \E p \in Procs : \E q \in Others(p) :
    /\ flags[p].down /\ ~flags[p].up /\ DB[p]
    /\ out[p] = {"rollback_not_implemented"}
    /\ q \in after[p] /\ Len(tracker) = 2 /\ schema # {}

\* C10: a run is past the creation of the tracker table only when the table
\* exists: it has listed the directory, taken its snapshot, read, executed or
\* recorded a change-set, or returned nil, only after the table was created; a
\* run whose creation of the table fails returns that error with nothing listed,
\* executed or recorded; and a run alone on a fresh database that returns nil
\* has recorded every discovered change-set in the table it created.
C10_TrackerBootstrap ==
  \A p \in Procs :
    /\ ( \/ pc[p] \in {"rm_readdir", "rm_query", "rm_loop", "rm_exec", "rm_record"}
         \/ sqlFiles[p] # <<>> \/ InLoop(p)
         \/ runLog[p] # <<>> \/ recLog[p] # <<>>
         \/ rmErr[p].kind \in {"readdir", "query", "scan", "read", "execute", "record", "nil"} )
         => (trackerExists /\ stmts[p] >= 1)
    /\ rmErr[p].kind = "create" =>
         /\ pc[p] = "exited" /\ exitCode[p] = 1 /\ stmts[p] = 1
         /\ sqlFiles[p] = <<>> /\ runLog[p] = <<>> /\ recLog[p] = <<>>
    /\ (Alone(p) /\ rmErr[p] = Nil) => (trackerExists /\ tracker = sqlFiles[p])

C10_Witness ==
  \E p \in Procs :
    /\ Alone(p) /\ rmErr[p] = Nil /\ trackerExists
    /\ tracker = <<Name1Sql, Name10Sql, Name2Sql>>

\* p ended with f executed and not recorded: it crashed, or its INSERT failed,
\* after the Exec of f.
Unrecorded(p, f) ==
  /\ pc[p] \in Ended
  /\ runLog[p] # <<>> /\ Last(runLog[p]) = f /\ f \notin Range(recLog[p])
\* The loop of p is past the change-set f.
Passed(p, f) == \E k \in 1..Len(sqlFiles[p]) : sqlFiles[p][k] = f /\ k < idx[p]

\* C11: when a run ended between the Exec of f and its INSERT, f has taken
\* effect and is in the tracker only if a later run recorded it; a run started
\* afterwards does not find f in its snapshot, never skips it, has executed it
\* again once its loop is past it, and has recorded it when it returns nil.
C11_GapIsReexecuted ==
  \A p \in Procs : \A q \in Others(p) : \A f \in AllNames :
    (Unrecorded(p, f) /\ (pc[q] = "idle" \/ p \in after[q])) =>
      /\ f \in schema
      /\ f \in Range(tracker) <=> f \in Range(recLog[q])
      /\ InLoop(q) =>
           /\ f \notin executedMigrations[q]
           /\ f \notin Range(skipLog[q])
           /\ Passed(q, f) => f \in Range(runLog[q])
           /\ rmErr[q] = Nil => (f \in Range(runLog[q]) /\ f \in Range(recLog[q]))

C11_Witness ==
  \E p \in Procs : \E q \in Others(p) :
    /\ pc[p] = "crashed" /\ runLog[p] = <<Name1Sql, Name10Sql>> /\ recLog[p] = <<Name1Sql>>
    /\ p \in after[q] /\ rmErr[q] = Nil
    /\ skipLog[q] = <<Name1Sql>> /\ runLog[q] = <<Name10Sql, Name2Sql>>

\* C12: a run skips exactly the discovered change-sets of its snapshot and
\* executes exactly those outside it, in the order of the list; a skip is no
\* error and does not end the run; a run that returns nil has recorded all it
\* executed and leaves every discovered change-set in the tracker; and a run
\* that starts after the others ended and reads the whole tracker executes
\* nothing that an earlier run recorded.
C12_ExecutesExactlyPending ==
  \A p \in Procs :
    InLoop(p) =>
      /\ Range(skipLog[p]) \subseteq executedMigrations[p] \cap Range(sqlFiles[p])
      /\ Range(runLog[p]) \subseteq Range(sqlFiles[p]) \ executedMigrations[p]
      /\ \A f \in Range(sqlFiles[p]) :
           Passed(p, f) =>
             IF f \in executedMigrations[p]
             THEN f \in Range(skipLog[p])
             ELSE f \in Range(runLog[p]) /\ f \in Range(recLog[p])
      /\ rmErr[p] = Nil =>
           /\ Range(skipLog[p]) = executedMigrations[p] \cap Range(sqlFiles[p])
           /\ Range(runLog[p]) = Range(sqlFiles[p]) \ executedMigrations[p]
           /\ recLog[p] = runLog[p]
           /\ Range(sqlFiles[p]) \subseteq Range(tracker)
      /\ (after[p] = Others(p) /\ ~rowsErr[p]) =>
           \A q \in Others(p) : Range(runLog[p]) \cap Range(recLog[q]) = {}

C12_Witness ==
  \E p \in Procs : \E q \in Others(p) :
    /\ rmErr[q] = Error("execute", Name10Sql) /\ recLog[q] = <<Name1Sql>>
    /\ q \in after[p] /\ ~rowsErr[p] /\ rmErr[p] = Nil
    /\ skipLog[p] = <<Name1Sql>> /\ runLog[p] = <<Name10Sql, Name2Sql>>

\* The directory can be listed and holds no file that ends in ".sql".
NoChangeSets ==
  /\ migrationsDir.readable
  /\ \A e \in migrationsDir.entries : e.isDir \/ ~HasSuffix(e.name, SqlSuffix)

\* C13: over a migrations directory that can be listed and holds no .sql file
\* no run executes or records anything, no run fails on the directory or on a
\* change-set, a run that gets to its loop returns nil, and a run that has
\* listed the directory or returned nil has the tracker table created.
C13_EmptyDirectory ==
  NoChangeSets =>
    /\ tracker = <<>> /\ schema = {}
    /\ \A p \in Procs :
         /\ sqlFiles[p] = <<>> /\ runLog[p] = <<>> /\ recLog[p] = <<>> /\ skipLog[p] = <<>>
         /\ rmErr[p].kind \in {"pending", "nil", "create", "query"}
         /\ pc[p] \notin {"rm_exec", "rm_record"}
         /\ (InLoop(p) /\ pc[p] = "exited") => rmErr[p] = Nil
         /\ (pc[p] = "rm_query" \/ InLoop(p) \/ rmErr[p] = Nil) => trackerExists
         /\ rmErr[p] = Nil => (exitCode[p] = 0 /\ stmts[p] = 2)

C13_Witness ==
  \E p \in Procs :
    /\ NoChangeSets /\ migrationsDir.entries # {}
    /\ rmErr[p] = Nil /\ trackerExists /\ tracker = <<>>

\* The state of change-set f in the run of p. A change-set the run has not
\* reached, or has skipped, is Pending.
CsState(p, f) ==
  IF f \in Range(recLog[p]) THEN "Applied"
  ELSE IF rmErr[p].kind \in {"read", "execute", "record"} /\ rmErr[p].name = f THEN "Failed"
  ELSE IF /\ pc[p] \in {"rm_loop", "rm_exec", "rm_record"}
          /\ idx[p] >= 1 /\ idx[p] <= Len(sqlFiles[p])
          /\ sqlFiles[p][idx[p]] = f
          /\ f \notin executedMigrations[p]
       THEN (IF pc[p] = "rm_loop" THEN "Reading"
             ELSE IF pc[p] = "rm_exec" THEN "Executing" ELSE "Recording")
  ELSE "Pending"

CsForward ==
  { <<"Pending", "Reading">>, <<"Reading", "Executing">>,
    <<"Executing", "Recording">>, <<"Recording", "Applied">>,
    <<"Pending", "Failed">>, <<"Reading", "Failed">>,
    <<"Executing", "Failed">>, <<"Recording", "Failed">> }

\* C20: in every step of a run that is not the death of its process, each
\* discovered change-set keeps its state or takes one forward transition
\* (Pending, Reading, Executing, Recording, Applied in this order, or Failed
\* from a state that is not Applied); Applied and Failed are never left; and a
\* change-set enters Recording only from Executing, as the last one executed.
C20_ForwardOnly ==
  [][\A p \in Procs :
       pc'[p] # "crashed" =>
         \A f \in Range(sqlFiles[p]) :
           /\ \/ CsState(p, f)' = CsState(p, f)
              \/ <<CsState(p, f), CsState(p, f)'>> \in CsForward
           /\ CsState(p, f)' = "Recording" =>
                /\ CsState(p, f) \in {"Executing", "Recording"}
                /\ runLog'[p] # <<>> /\ Last(runLog'[p]) = f
                /\ f \in schema']_vars

C20_Witness ==
  \E p \in Procs :
    /\ Len(sqlFiles[p]) = 3
    /\ CsState(p, Name1Sql) = "Applied"
    /\ CsState(p, Name10Sql) = "Failed" /\ rmErr[p].kind = "record"
    /\ CsState(p, Name2Sql) = "Pending"

\* ------------------------------------------------------------------ C14
MigrationFailed(p) == rmErr[p] \notin {Pending, Nil}
SeedingStarted(p) ==
  \/ pc[p] \in InSeed \cup {"serving"}
  \/ seedErr[p] # Pending
  \/ seedFiles[p] # <<>>
  \/ seedLog[p] # <<>>
ServerStarted(p) ==
  pc[p] \in {"start", "serving"} \/ out[p] \cap {"server_started", "fatal_server"} # {}

\* C14: when db.RunMigrations returns an error its process ends with exit
\* status 1: the application never starts seeding or the HTTP server after it,
\* and the migration tool never prints that the migrations completed.
C14_FailedMigrationIsFatal ==
  \A p \in Procs :
    MigrationFailed(p) =>
      /\ pc[p] = "exited"
      /\ exitCode[p] = 1
      /\ "fatal_migrate" \in out[p]
      /\ ~SeedingStarted(p)
      /\ ~ServerStarted(p)
      /\ "completed" \notin out[p]

\* An application and a migration tool have both had db.RunMigrations return
\* an error, one of them in its loop over the change-sets.
C14_Witness ==
  \E p \in Procs : \E q \in Others(p) :
    /\ prog[p] \in {"app", "app0"} /\ MigrationFailed(p)
    /\ prog[q] = "migrate" /\ MigrationFailed(q)
    /\ rmErr[p].kind # rmErr[q].kind
    /\ rmErr[q].name # NoName

\* ------------------------------------------------------------------ C15
SeedExecFailed(p) == seedErr[p].kind = "seed_execute"

\* C15: when the Exec of a seed file fails, db.SeedDatabase returns an error
\* naming the file and has executed neither it nor any seed file that sorts
\* after it; main prints a warning and goes on to build the repository and
\* start the HTTP server, so the process ends only if the server fails.
C15_SeedFailSoft ==
  \A p \in Procs :
    SeedExecFailed(p) =>
      /\ seedErr[p].name \in Range(seedFiles[p])
      /\ \A k \in 1..Len(seedLog[p]) : StrLess(seedLog[p][k], seedErr[p].name)
      /\ "seed_warning" \in out[p]
      /\ pc[p] \in {"start", "serving", "exited", "crashed"}
      /\ pc[p] = "exited" => "fatal_server" \in out[p]
      /\ exitCode[p] = 1 => "fatal_server" \in out[p]

\* The first of two seed files failed, the second was not executed, and the
\* server is serving.
C15_Witness ==
  \E p \in Procs :
    /\ SeedExecFailed(p)
    /\ Len(seedFiles[p]) = 2
    /\ seedErr[p].name = seedFiles[p][1]
    /\ seedLog[p] = <<>>
    /\ pc[p] = "serving"
    /\ "server_started" \in out[p]

\* ------------------------------------------------------------------ C16
Seeding(p) == pc[p] \in {"sd_readdir", "sd_loop", "sd_exec"}
IsPrefix(s, t) == Len(s) <= Len(t) /\ s = SubSeq(t, 1, Len(s))
SeededBefore(p) == \E q \in after[p] : seedErr[q] = Nil /\ seedLog[q] # <<>>

SeedsInOrder(p) ==
  /\ IsStrictlyAscending(seedFiles[p])
  /\ IsPrefix(seedLog[p], seedFiles[p])
  /\ Seeding(p) /\ seedIdx[p] >= 1 => Len(seedLog[p]) = seedIdx[p] - 1
  /\ seedErr[p] = Nil => seedLog[p] = seedFiles[p]

\* C16: a db.SeedDatabase run executes the seed files it discovered one by
\* one in ascending order of name, whatever an earlier run has executed; one
\* that returns nil has executed them all; and no step of it changes the
\* tracker table.
C16_SeedsAllEveryRun ==
  [][ \A p \in Procs :
        /\ SeedsInOrder(p)'
        /\ Seeding(p) => UNCHANGED <<tracker, trackerExists>> ]_vars

\* A run has executed both seed files although an earlier run had already
\* executed seed files, on a database with recorded change-sets.
C16_Witness ==
  \E p \in Procs :
    /\ SeededBefore(p)
    /\ seedErr[p] = Nil
    /\ Len(seedLog[p]) = 2
    /\ tracker # <<>>

\* ------------------------------------------------------------------ C17
RECURSIVE DatasetSize(_)
DatasetSize(files) ==
  IF files = <<>> THEN 0 ELSE Len(SeedRows(Head(files))) + DatasetSize(Tail(files))

SeededFully(q) == seedErr[q] = Nil /\ seedFiles[q] # <<>>

\* C17: once a seeding has executed the whole dataset, the users table holds
\* exactly the dataset's rows whatever seeding follows: each INSERT of a
\* later seeding is accepted and adds no row, so that seeding returns nil
\* unless the database fails for another reason.
C17_SeedTwiceSameRows ==
  \A q \in Procs :
    SeededFully(q) =>
      /\ Len(users) = DatasetSize(seedFiles[q])
      /\ \A k1, k2 \in 1..Len(users) : users[k1].email = users[k2].email => k1 = k2
      /\ \A p \in Procs :
           (q \in after[p] /\ pc[p] = "sd_exec") =>
              /\ UsersTableExists
              /\ InsertOnConflictEmail(users, SeedRows(CurrentSeed(p))).ok
              /\ InsertOnConflictEmail(users, SeedRows(CurrentSeed(p))).rows = users

\* A second seeding of both seed files has returned nil after a first one
\* that had returned nil, and the table holds the three rows of the dataset.
C17_Witness ==
  \E p \in Procs : \E q \in after[p] :
    /\ SeededFully(q) /\ Len(seedLog[q]) = 2
    /\ seedErr[p] = Nil /\ seedLog[p] = seedLog[q]
    /\ Len(users) = 3

\* ------------------------------------------------------------------ C18
InitFailed(p) == "fatal_init" \in out[p]

\* C18: InitPostgres with an empty connection string returns an error without
\* calling pgxpool.New; an InitPostgres that returns an error leaves the pool
\* handle unset, and its process ends before any statement; the handle is
\* set only when pgxpool.New was called and built a pool.
C18_PoolSetOnlyOnSuccess ==
  \A p \in Procs :
    /\ (dial[p].called /\ dial[p].dsn = "") => (InitFailed(p) /\ ~dial[p].dialled)
    /\ (dial[p].called /\ ~dial[p].built) => InitFailed(p)
    /\ InitFailed(p) => (~DB[p] /\ pc[p] = "exited" /\ exitCode[p] = 1 /\ stmts[p] = 0)
    /\ DB[p] => (dial[p].called /\ dial[p].dsn # "" /\ dial[p].dialled /\ dial[p].built)

\* One process failed on an empty connection string, another on pgxpool.New.
C18_Witness ==
  \E p \in Procs : \E q \in Others(p) :
    /\ InitFailed(p) /\ dial[p].dsn = "" /\ ~DB[p]
    /\ InitFailed(q) /\ dial[q].dialled /\ ~dial[q].built /\ ~DB[q]

\* ------------------------------------------------------------------ C19
\* Two characters that are equal up to the case of an ASCII letter.
SameLetter(a, b) ==
  \/ a = b
  \/ a \in 65..90 /\ b = a + 32
  \/ b \in 65..90 /\ a = b + 32
EqualFold(s, t) ==
  Len(s) = Len(t) /\ \A k \in 1..Len(s) : SameLetter(s[k], t[k])
EnablesMigration(value) ==
  \E word \in {StrTrue, StrOne, StrYes} : EqualFold(value, word)

AppStarted(p) == prog[p] = "app" /\ DB[p]
RanNoMigration(p) ==
  /\ pc[p] \notin InRun
  /\ rmErr[p] = Pending
  /\ sqlFiles[p] = <<>> /\ runLog[p] = <<>> /\ recLog[p] = <<>> /\ skipLog[p] = <<>>
  /\ stmts[p] \in {Len(seedLog[p]), Len(seedLog[p]) + 1}

NoneBeside(p) == \A q \in Others(p) : pc[q] = "idle" \/ q \in after[p]

\* C21: a run that is in (or past) its loop has read every row of the tracker
\* table: the iteration over the rows did not end on an error, and, when no
\* other process runs beside it, its snapshot is the tracker less what the run
\* itself recorded since.
C21_CompleteSnapshotOrFailure ==
  \A p \in Procs :
    InLoop(p) =>
      /\ ~rowsErr[p]
      /\ NoneBeside(p) => executedMigrations[p] = Range(tracker) \ Range(recLog[p])

\* ------------------------------------------------------------------ C22
Records(f) == {k \in 1..Len(tracker) : tracker[k] = f}
RecordFailed(p) == rmErr[p].kind = "record"

\* The run of p ended on the INSERT of the change-set its loop was at.
RecordErrorSurfaced(p) ==
  /\ rmErr[p].name = Current(p)
  /\ pc[p] = "exited" /\ exitCode[p] = 1 /\ "completed" \notin out[p]
  /\ runLog[p] # <<>> /\ Last(runLog[p]) = rmErr[p].name
  /\ rmErr[p].name \notin Range(recLog[p])
  /\ Cardinality(Records(rmErr[p].name)) <= 1

\* C22: an INSERT of a name that is in the tracker is refused: the step leaves
\* the tracker as it is and the run returns the record error naming the
\* change-set; a run that returned a record error has ended with it, executed
\* nothing after that change-set and left at most one record of it.
C22_RecordConflictSurfaced ==
  [][ \A p \in Procs :
        /\ (pc[p] = "rm_record" /\ Current(p) \in Range(tracker)
               /\ pc'[p] \notin {"rm_record", "crashed"}) =>
             /\ rmErr'[p] = Error("record", Current(p))
             /\ tracker' = tracker
             /\ Cardinality(Records(Current(p))) = 1
        /\ RecordFailed(p)' => RecordErrorSurfaced(p)' ]_vars

\* Two concurrent runs executed the same change-set; one recorded it, the
\* other's INSERT was refused and it ended before the change-sets that follow.
C22_Witness ==
  \E p \in Procs : \E q \in Others(p) :
    /\ Concurrent(p, q)
    /\ RecordFailed(p)
    /\ rmErr[p].name \in Range(recLog[q])
    /\ Cardinality(Records(rmErr[p].name)) = 1
    /\ idx[p] < Len(sqlFiles[p])

\* ------------------------------------------------------------------ C23
EndsInSql(n) == Len(n) >= 4 /\ SubSeq(n, Len(n) - 3, Len(n)) = <<46, 115, 113, 108>>
SqlFilesOf(dir) == {e.name : e \in {d \in dir.entries : ~d.isDir /\ EndsInSql(d.name)}}
Position(s, x) == CHOOSE k \in 1..Len(s) : s[k] = x
TenBeforeTwo(s) ==
  (Name10Sql \in Range(s) /\ Name2Sql \in Range(s)) => Position(s, Name10Sql) < Position(s, Name2Sql)

\* The run of p has the list of its change-sets, the seeding of p that of its
\* seed files.
Discovered(p) == pc[p] \in {"rm_query", "rm_loop", "rm_exec", "rm_record"} \/ InLoop(p)
SeedsDiscovered(p) == pc[p] \in {"sd_loop", "sd_exec"} \/ seedIdx[p] >= 1

\* C23: the list a run works on holds exactly the names of the directory's
\* entries that are files and end in ".sql", each once, in ascending order of
\* their bytes ("10.sql" before "2.sql"); the same holds of a seeding and the
\* seeds directory; nothing outside the list is ever executed.
C23_DiscoveryExact ==
  \A p \in Procs :
    /\ Discovered(p) =>
         /\ Range(sqlFiles[p]) = SqlFilesOf(migrationsDir)
         /\ IsStrictlyAscending(sqlFiles[p])
         /\ TenBeforeTwo(sqlFiles[p])
    /\ SeedsDiscovered(p) =>
         /\ Range(seedFiles[p]) = SqlFilesOf(seedsDir)
         /\ IsStrictlyAscending(seedFiles[p])
    /\ Range(runLog[p]) \cup Range(recLog[p]) \cup Range(skipLog[p]) \subseteq SqlFilesOf(migrationsDir)
    /\ Range(seedLog[p]) \subseteq SqlFilesOf(seedsDir)

\* An application has executed "10.sql" and then "2.sql" from a directory that
\* also holds a text file and a sub-directory named like a change-set, and has
\* its two seed files listed from a directory with the same two decoys.
C23_Witness ==
  \E p \in Procs :
    /\ runLog[p] = <<Name10Sql, Name2Sql>>
    /\ Decoys \subseteq migrationsDir.entries
    /\ Len(seedFiles[p]) = 2
    /\ Decoys \subseteq seedsDir.entries

\* ------------------------------------------------------------------ C24
NothingMigrated(p) ==
  /\ sqlFiles[p] = <<>>
  /\ runLog[p] = <<>> /\ recLog[p] = <<>> /\ skipLog[p] = <<>>
  /\ ~Discovered(p)
NothingSeeded(p) ==
  /\ seedFiles[p] = <<>> /\ seedLog[p] = <<>>
  /\ ~SeedsDiscovered(p)

\* C24: with a migrations directory that cannot be listed no run gets past
\* os.ReadDir: it returns the error of it (unless it ended earlier), executes
\* and records nothing, and leaves tracker and schema empty; a seeding with a
\* seeds directory that cannot be listed returns the error of os.ReadDir and
\* executes no seed file.
C24_UnlistableDirectory ==
  \A p \in Procs :
    /\ ~migrationsDir.readable =>
         /\ NothingMigrated(p)
         /\ rmErr[p].kind \in {"pending", "db_nil", "create", "readdir"}
         /\ "completed" \notin out[p]
         /\ SeedingStarted(p) => (prog[p] = "app" /\ ~EnablesMigration(autoMigrate[p]))
         /\ tracker = <<>> /\ schema = {}
    /\ rmErr[p].kind = "readdir" =>
         /\ ~migrationsDir.readable
         /\ pc[p] = "exited" /\ exitCode[p] = 1
    /\ ~seedsDir.readable =>
         /\ NothingSeeded(p)
         /\ seedErr[p].kind \in {"pending", "seed_readdir"}
         /\ (seedErr[p] = Pending) => pc[p] \notin {"start", "serving"}
         /\ users = <<>>
    /\ seedErr[p].kind = "seed_readdir" =>
         /\ ~seedsDir.readable
         /\ "seed_warning" \in out[p]

\* One run has returned the error of listing the migrations directory, and a
\* seeding that of listing the seeds directory.
C24_Witness ==
  \E p \in Procs : \E q \in Procs :
    /\ rmErr[p].kind = "readdir" /\ trackerExists /\ stmts[p] = 1
    /\ seedErr[q].kind = "seed_readdir" /\ stmts[q] = 0

\* ------------------------------------------------------------------ C25
\* What the run of p recorded it had executed before, in the same order; it
\* recorded nothing it skipped and not the change-set it failed on.
RecordsFollowExecution(p) ==
  /\ IsPrefix(recLog[p], runLog[p])
  /\ Len(runLog[p]) <= Len(recLog[p]) + 1
  /\ Range(recLog[p]) \cap Range(skipLog[p]) = {}
  /\ rmErr[p].kind \in {"read", "execute", "record"} =>
       /\ rmErr[p].name \notin Range(recLog[p])
       /\ rmErr[p].name \notin Range(skipLog[p])
  /\ rmErr[p].kind \in {"read", "execute"} => rmErr[p].name \notin Range(runLog[p])

\* C25: every row of the tracker is written by the INSERT step of a run whose
\* preceding Exec of that change-set succeeded; a run records only what it
\* executed, never what it skipped or failed to read or to execute.
C25_RecordOnlyAfterExecution ==
  [][ /\ \A p \in Procs : RecordsFollowExecution(p)'
      /\ tracker' # tracker =>
           \E p \in Procs :
             /\ pc[p] = "rm_record"
             /\ runLog[p] # <<>> /\ Last(runLog[p]) = Current(p)
             /\ Current(p) \in schema
             /\ tracker' = Append(tracker, Current(p))
             /\ recLog'[p] = Append(recLog[p], Current(p)) ]_vars

\* A run skipped a change-set, executed and recorded another, and failed to
\* execute a third.
C25_Witness ==
  \E p \in Procs :
    /\ skipLog[p] # <<>>
    /\ recLog[p] # <<>>
    /\ rmErr[p].kind = "execute"
    /\ rmErr[p].name \notin Range(tracker)

\* ------------------------------------------------------------------ C26
NoDuplicates(s) == \A k1, k2 \in 1..Len(s) : s[k1] = s[k2] => k1 = k2
Returned(p) == rmErr[p] # Pending

\* Within the run of p each change-set is considered at most once, and a run
\* that returned nil considered each exactly once; a run that returned an
\* error has ended with it.
ConsidersEachOnce(p) ==
  /\ NoDuplicates(runLog[p] \o skipLog[p])
  /\ Len(runLog[p]) + Len(skipLog[p]) <= Len(sqlFiles[p])
  /\ InLoop(p) => idx[p] <= Len(sqlFiles[p]) + 1
  /\ rmErr[p] = Nil =>
       /\ Range(runLog[p]) \cup Range(skipLog[p]) = Range(sqlFiles[p])
       /\ idx[p] = Len(sqlFiles[p]) + 1
  /\ MigrationFailed(p) => pc[p] = "exited"

\* C26: every run of RunMigrations that does not die returns, with nil or
\* with an error; within it no change-set is executed twice, and after an
\* error nothing of the run is taken up again.
C26_RunTerminates ==
  /\ [](\A p \in Procs : ConsidersEachOnce(p))
  /\ [][\A p \in Procs : Returned(p) => UNCHANGED <<rmErr[p], runLog[p], recLog[p], idx[p]>>]_vars
  /\ \A p \in Procs : (pc[p] \in InRun) ~> (Returned(p) \/ pc[p] = "crashed")

\* Two runs have returned, one with nil after two change-sets and one with the
\* error of an Exec.
C26_Witness ==
  \E p \in Procs : \E q \in Others(p) :
    /\ rmErr[p] = Nil /\ Len(runLog[p]) + Len(skipLog[p]) = 2
    /\ rmErr[q].kind = "execute"

\* ------------------------------------------------------------------ C27
\* f was executed and recorded by the run of p before its k-th execution.
DoneBefore(p, f, k) ==
  \E j \in 1..(k - 1) : runLog[p][j] = f /\ j <= Len(recLog[p]) /\ recLog[p][j] = f

\* C27: when a run executes a change-set, each discovered change-set that
\* sorts before it is in the run's snapshot or was executed and recorded
\* earlier in the run; and the tracker, which starts empty, is at all times an
\* initial part of the sorted list of a run that has discovered it.
C27_PrefixClosure ==
  \A p \in Procs :
    /\ \A k \in 1..Len(runLog[p]) : \A f \in Range(sqlFiles[p]) :
         StrLess(f, runLog[p][k]) => (f \in executedMigrations[p] \/ DoneBefore(p, f, k))
    /\ Discovered(p) => IsPrefix(tracker, sqlFiles[p])

\* A run found one of three change-sets in its snapshot and has executed and
\* recorded the other two.
C27_Witness ==
  \E p \in Procs :
    /\ Len(sqlFiles[p]) = 3
    /\ executedMigrations[p] = {sqlFiles[p][1]}
    /\ Len(runLog[p]) = 2 /\ recLog[p] = runLog[p]
    /\ tracker = sqlFiles[p]

\* ------------------------------------------------------------------ C28
\* C28: no step of a migration run, of a seeding or of the migration tool
\* removes or changes a row of the tracker or drops the table: rows are only
\* added at its end, so a name that is in the tracker stays in it.
C28_TrackerOnlyGrows ==
  [][ /\ IsPrefix(tracker, tracker')
      /\ trackerExists => trackerExists' ]_vars

\* The tracker holds two records after a run of the migration tool, a run of
\* the application that recorded a change-set and a seeding that executed a
\* seed file.
C28_Witness ==
  \E p \in Procs : \E q \in Others(p) :
    /\ prog[p] = "migrate" /\ rmErr[p] # Pending
    /\ prog[q] \in {"app", "app0"} /\ recLog[q] # <<>> /\ seedLog[q] # <<>>
    /\ Len(tracker) = 2

\* ------------------------------------------------------------------ C29
NotInitialized(e) == e = Error("db_nil", NoName)
CalledRunMigrations(p) == pc[p] \in InRun \/ Returned(p)
CalledSeedDatabase(p) == pc[p] \in {"sd_readdir", "sd_loop", "sd_exec"} \/ seedErr[p] # Pending

\* C29: a call of db.RunMigrations or db.SeedDatabase with the pool handle
\* unset returns the "database not initialized" error in its first step: the
\* call issues no statement, lists no directory and executes nothing, and
\* while no caller has a pool the database stays as it was; with the handle
\* set neither function returns that error.
C29_NilPoolRejected ==
  /\ \A p \in Procs :
       /\ (~DB[p] /\ pc[p] # "idle") =>
            /\ stmts[p] = 0
            /\ NothingMigrated(p) /\ NothingSeeded(p)
            /\ CalledRunMigrations(p) => (pc[p] = "rm_create" \/ NotInitialized(rmErr[p]))
            /\ CalledSeedDatabase(p) => (pc[p] = "sd_readdir" \/ NotInitialized(seedErr[p]))
            /\ pc[p] \in {"rm_create", "sd_readdir", "returned"}
       /\ DB[p] => (~NotInitialized(rmErr[p]) /\ ~NotInitialized(seedErr[p]))
  /\ (\A p \in Procs : ~DB[p]) =>
       (~trackerExists /\ tracker = <<>> /\ schema = {} /\ users = <<>>)

\* One caller without a pool got the error from db.RunMigrations, another,
\* whose InitPostgres had failed, got it from db.SeedDatabase, with change-sets
\* and seed files in the directories.
C29_Witness ==
  \E p \in Procs : \E q \in Others(p) :
    /\ ~DB[p] /\ NotInitialized(rmErr[p]) /\ pc[p] = "returned"
    /\ ~DB[q] /\ NotInitialized(seedErr[q]) /\ pc[q] = "returned" /\ dial[q].called
    /\ SqlFilesOf(migrationsDir) # {} /\ SqlFilesOf(seedsDir) # {}

====
